---- MODULE Spec2Model ----
(***************************************************************************)
(* Model of the CERRA point-extraction notebook (process_CERRA) and of the *)
(* wind functions of weather_transformations.ipynb.                        *)
(*                                                                         *)
(* Four specifications share the variables:                                *)
(*   Spec          get_point_values_of_CERRA_grib, step by step, invoked   *)
(*                 repeatedly against the process-wide /vsimem file system *)
(*   SpecSelector  get_bands_based_on_grib_element on bounded datasets     *)
(*   SpecSampler   get_raster_value_at_point on bounded rasters and points *)
(*   SpecWind      wind_dir_era5, elementwise on bounded arrays            *)
(***************************************************************************)
EXTENDS Integers, Sequences, FiniteSets, TLC

VARIABLES
    pc,                 \* position of the running call
    \* get_point_values_of_CERRA_grib: arguments and locals
    shp_with_points,    \* the layer's features, a sequence of <<x, y>>
    cerra_grib,         \* the opened grib file, a sequence of bands
    meteo_index,        \* the variable identifier
    bands_with_wdir,    \* result of the band selector
    output_dataset,     \* the reprojected dataset (NoDataset before the warp)
    nfeature,           \* number of features the loop has taken from the layer
    values_all_points,
    coord_points,
    time_all_points,
    time,               \* the local `time`: <<>> unbound, <<t>> bound to t
    ret,                \* what the last get_raster_value_at_point call gave
    outcome,            \* how the call ended: the returned tuple or the exception
    vsimem,             \* GDAL's in-memory file system: path -> what is stored
    trace,              \* the component calls of the running invocation, in order
    \* get_bands_based_on_grib_element: arguments and result
    grib_file, met_var, matching_bands,
    \* get_raster_value_at_point: arguments
    ds, gt, x, y,
    \* wind_dir_era5: arguments and result (numpy arrays, as sequences)
    u_speed, v_speed, wind_dir

vars == <<pc, shp_with_points, cerra_grib, meteo_index, bands_with_wdir,
          output_dataset, nfeature, values_all_points, coord_points,
          time_all_points, time, ret, outcome, vsimem, trace,
          grib_file, met_var, matching_bands, ds, gt, x, y,
          u_speed, v_speed, wind_dir>>

orchestratorVars == <<shp_with_points, cerra_grib, meteo_index, bands_with_wdir,
                      output_dataset, nfeature, values_all_points, coord_points,
                      time_all_points, time, outcome, vsimem, trace>>
selectorVars == <<grib_file, met_var, matching_bands>>
samplerVars == <<ds, gt, x, y>>
windVars == <<u_speed, v_speed, wind_dir>>

(***************************************************************************)
(* Bounds                                                                  *)
(***************************************************************************)
\* bands of a dataset handed to the band selector alone
MaxBands == 3
\* bands of the grib file handed to the pipeline and of a sampled raster
MaxGribBands == 2
\* features of the point layer
MaxPoints == 2
\* length of the arrays handed to wind_dir_era5
MaxArr == 2

SeqsUpTo(S, n) == UNION {[1..k -> S] : k \in 0..n}

RasterCount(dataset) == Len(dataset.bands)
GetRasterBand(dataset, i) == dataset.bands[i]

(***************************************************************************)
(* Data: bands, datasets, points                                           *)
(***************************************************************************)
MetVars == {"WDIR", "TEMP"}

\* The pixel grid of a band that ReadAsArray cannot read.
Unreadable == "unreadable"

\* GRIB_IDS texts: with a ' REF_TIME=...Z' part, and without one.
IdsAt(t) == [CENTER |-> "85", REF_TIME |-> t]
IdsNoRefTime == [CENTER |-> "85"]

\* A band: its metadata dictionary and its pixel grid.
BandKinds ==
    { [metadata |-> [GRIB_ELEMENT |-> "WDIR", GRIB_IDS |-> IdsAt("T00")],
       array |-> "A", resampleAlg |-> "none"],
      [metadata |-> [GRIB_ELEMENT |-> "WDIR", GRIB_IDS |-> IdsAt("T03")],
       array |-> "B", resampleAlg |-> "none"],
      [metadata |-> [GRIB_ELEMENT |-> "TEMP", GRIB_IDS |-> IdsAt("T00")],
       array |-> "C", resampleAlg |-> "none"],
      [metadata |-> [GRIB_IDS |-> IdsAt("T00")],
       array |-> "D", resampleAlg |-> "none"],
      [metadata |-> [GRIB_ELEMENT |-> "WDIR", GRIB_IDS |-> IdsAt("T03")],
       array |-> Unreadable, resampleAlg |-> "none"],
      [metadata |-> [GRIB_ELEMENT |-> "WDIR", GRIB_IDS |-> IdsNoRefTime],
       array |-> "E", resampleAlg |-> "none"] }

\* The grid of the grib file itself (Lambert conformal conic, as the notebook sets it).
SourceGrid == [RasterXSize |-> 2, RasterYSize |-> 2,
               geotransform |-> <<0, 5, 0, 0, 0, -5>>, projection |-> "LCC"]

Dataset(bands, grid) ==
    [bands |-> bands, RasterXSize |-> grid.RasterXSize, RasterYSize |-> grid.RasterYSize,
     geotransform |-> grid.geotransform, projection |-> grid.projection]

\* The value of output_dataset before the warp.
NoDataset == Dataset(<<>>, [RasterXSize |-> 0, RasterYSize |-> 0,
                            geotransform |-> <<0, 0, 0, 0, 0, 0>>, projection |-> "unset"])


(***************************************************************************)
(* get_bands_based_on_grib_element                                         *)
(***************************************************************************)
RECURSIVE MatchingFrom(_, _, _, _)
\* the loop `for i in range(1, RasterCount + 1)` from index i on
MatchingFrom(file, var, i, matching) ==
    IF i > RasterCount(file) THEN matching
    ELSE LET metadata == GetRasterBand(file, i).metadata
         IN  IF "GRIB_ELEMENT" \in DOMAIN metadata /\ metadata["GRIB_ELEMENT"] = var
             THEN MatchingFrom(file, var, i + 1, Append(matching, i))
             ELSE MatchingFrom(file, var, i + 1, matching)

\* a selector that numbers the bands from 0, as range(RasterCount) would
SelectorZeroBased(file, var) ==
    LET one == MatchingFrom(file, var, 1, <<>>)
    IN  [k \in 1..Len(one) |-> one[k] - 1]

get_bands_based_on_grib_element(file, var) == MatchingFrom(file, var, 1, <<>>)

(***************************************************************************)
(* warp_CERRA_to_targetCRS: what gdal.Translate and gdal.Warp produce      *)
(***************************************************************************)
TempPath == "/vsimem/temp_band.vrt"
OutputPath == "/vsimem/output_in_memory.tif"
Paths == {TempPath, OutputPath}

TargetCrs == {"EPSG:4326", "EPSG:3035"}

\* The grid gdal.Warp lays out for a target reference: origin and pixel size
\* of either sign, rotation terms zero.
WarpGrid(target_crs) ==
    IF target_crs = "EPSG:4326"
    THEN [RasterXSize |-> 2, RasterYSize |-> 2,
          geotransform |-> <<0, 2, 0, 0, 0, -2>>, projection |-> target_crs]
    ELSE [RasterXSize |-> 2, RasterYSize |-> 2,
          geotransform |-> <<4, -2, 0, -4, 0, 2>>, projection |-> target_crs]

\* gdal.Translate(format="VRT", bandList=list): the named bands, in list order.
\* An empty bandList adds no band option: the library then either copies every
\* band or yields a dataset without bands; `all` chooses between the two.
TranslateBands(cerra_data, list_of_bands_to_warp, all) ==
    IF list_of_bands_to_warp = <<>>
    THEN IF all THEN cerra_data.bands ELSE <<>>
    ELSE [k \in 1..Len(list_of_bands_to_warp) |->
             GetRasterBand(cerra_data, list_of_bands_to_warp[k])]

\* gdal.Warp(resampleAlg="bilinear", dstSRS=target_crs) of one band: the
\* metadata is carried over, the pixel grid is resampled.
WarpBand(band) ==
    [metadata |-> band.metadata, array |-> band.array, resampleAlg |-> "bilinear"]

WarpDataset(temp_dataset, target_crs) ==
    Dataset([k \in 1..Len(temp_dataset.bands) |-> WarpBand(temp_dataset.bands[k])],
            WarpGrid(target_crs))

(***************************************************************************)
(* get_raster_value_at_point                                               *)
(***************************************************************************)
\* What a call gives: None, the tuple (values, time), or an exception.
\* `reads` counts the ReadAsArray calls the call made.
ReturnNone(reads) == [kind |-> "None", values |-> <<>>, time |-> <<>>, reads |-> reads]
ReturnTuple(values, tm, reads) ==
    [kind |-> "tuple", values |-> values, time |-> tm, reads |-> reads]
Raise(reads) == [kind |-> "AttributeError", values |-> <<>>, time |-> <<>>, reads |-> reads]
NotCalled == [kind |-> "not called", values |-> <<>>, time |-> <<>>, reads |-> 0]

Abs(a) == IF a < 0 THEN -a ELSE a

\* int(a / b) of Python: the quotient truncated toward zero
TruncDiv(a, b) ==
    IF (a >= 0) = (b > 0) THEN Abs(a) \div Abs(b) ELSE -(Abs(a) \div Abs(b))

\* band.ReadAsArray(col, row, 1, 1): None for a grid that cannot be read
NoData == [grid |-> Unreadable, col |-> -1, row |-> -1, alg |-> "none"]
ReadAsArray(band, col, row) ==
    IF band.array = Unreadable THEN NoData
    ELSE [grid |-> band.array, col |-> col, row |-> row, alg |-> band.resampleAlg]

RECURSIVE BandLoop(_, _, _, _, _, _)
\* the loop `for timestamp in range(1, RasterCount + 1)` from band timestamp on
BandLoop(dataset, col, row, timestamp, values, tm) ==
    IF timestamp > RasterCount(dataset) THEN ReturnTuple(values, tm, timestamp - 1)
    ELSE LET band == GetRasterBand(dataset, timestamp)
             ids  == band.metadata["GRIB_IDS"]
         IN  IF "REF_TIME" \notin DOMAIN ids
             THEN Raise(timestamp - 1)       \* re.search gives None: .group fails
             ELSE LET data == ReadAsArray(band, col, row)
                  IN  IF data = NoData
                      THEN ReturnNone(timestamp)
                      ELSE BandLoop(dataset, col, row, timestamp + 1,
                                    Append(values, data), Append(tm, ids.REF_TIME))

RECURSIVE BandLoopPartial(_, _, _, _, _, _)
\* a band loop that stops at a band without data and keeps what it has so far
BandLoopPartial(dataset, col, row, timestamp, values, tm) ==
    IF timestamp > RasterCount(dataset) THEN ReturnTuple(values, tm, timestamp - 1)
    ELSE LET band == GetRasterBand(dataset, timestamp)
             ids  == band.metadata["GRIB_IDS"]
         IN  IF "REF_TIME" \notin DOMAIN ids
             THEN Raise(timestamp - 1)
             ELSE LET data == ReadAsArray(band, col, row)
                  IN  IF data = NoData
                      THEN ReturnTuple(values, tm, timestamp)
                      ELSE BandLoopPartial(dataset, col, row, timestamp + 1,
                                           Append(values, data), Append(tm, ids.REF_TIME))

PixelCol(geot, px) == TruncDiv(px - geot[1], geot[2])
PixelRow(geot, py) == TruncDiv(py - geot[4], geot[6])

OutOfBounds(dataset, col, row) ==
    col < 0 \/ col >= dataset.RasterXSize \/ row < 0 \/ row >= dataset.RasterYSize

\* a sampler that returns a shorter, partial sequence when a read has no data
SamplerPartial(dataset, geot, px, py) ==
    LET col == PixelCol(geot, px)
        row == PixelRow(geot, py)
    IN  IF OutOfBounds(dataset, col, row) THEN ReturnNone(0)
        ELSE BandLoopPartial(dataset, col, row, 1, <<>>, <<>>)

get_raster_value_at_point(dataset, geot, px, py) ==
    LET col == PixelCol(geot, px)
        row == PixelRow(geot, py)
    IN  IF OutOfBounds(dataset, col, row) THEN ReturnNone(0)
        ELSE BandLoop(dataset, col, row, 1, <<>>, <<>>)

(***************************************************************************)
(* wind_dir_era5                                                           *)
(***************************************************************************)
Units == {-1, 0, 1}

\* (180/pi) * arctan2(a, b) for a, b in Units: multiples of 45 degrees
Atan2Deg(a, b) ==
    CASE a = 0 /\ b >= 0 -> 0
      [] a = 0 /\ b < 0  -> 180
      [] a > 0 /\ b > 0  -> 45
      [] a > 0 /\ b = 0  -> 90
      [] a > 0 /\ b < 0  -> 135
      [] a < 0 /\ b > 0  -> -45
      [] a < 0 /\ b = 0  -> -90
      [] a < 0 /\ b < 0  -> -135

\* the direction with the arguments of arctan2 in the mathematical order
WindDirSwapped(u, v) == [i \in DOMAIN u |-> (180 + Atan2Deg(v[i], u[i])) % 360]

wind_dir_era5(u, v) == [i \in DOMAIN u |-> (180 + Atan2Deg(u[i], v[i])) % 360]

(***************************************************************************)
(* Inputs                                                                  *)
(***************************************************************************)
\* point geometries of the layer: inside the warped raster, far outside it,
\* and less than one pixel outside its origin edge
Points == {<<1, -1>>, <<3, -3>>, <<9, -1>>, <<-1, -1>>}

Layers == {[srs |-> c, features |-> f] : c \in TargetCrs, f \in SeqsUpTo(Points, MaxPoints)}

GribFiles(n) == {Dataset(b, SourceGrid) : b \in SeqsUpTo(BandKinds, n)}

\* rasters handed to the point sampler alone: pixel sizes of either sign
SamplerGrids ==
    {[RasterXSize |-> 2, RasterYSize |-> 2, geotransform |-> g, projection |-> "EPSG:4326"] :
        g \in {<<0, 2, 0, 0, 0, -2>>, <<4, -2, 0, -4, 0, 2>>,
               <<0, 2, 0, -4, 0, 2>>, <<4, -2, 0, 0, 0, -2>>}}

SamplerDatasets ==
    {Dataset([k \in 1..Len(b) |-> WarpBand(b[k])], g) :
        b \in SeqsUpTo(BandKinds, MaxGribBands), g \in SamplerGrids}

Coords == {-3, -1, 0, 1, 3, 4, 5, 7}

(***************************************************************************)
(* Values of the variables a specification does not use                    *)
(***************************************************************************)
NoOutcome == [kind |-> "none", values |-> <<>>, coords |-> <<>>, time |-> <<>>]
Return(values, coords, tm) ==
    [kind |-> "return", values |-> values, coords |-> coords, time |-> tm]
Exception(name) == [kind |-> name, values |-> <<>>, coords |-> <<>>, time |-> <<>>]

NoFiles == [p \in Paths |-> "absent"]

LocalsCleared ==
    /\ bands_with_wdir = <<>>
    /\ output_dataset = NoDataset
    /\ nfeature = 0
    /\ values_all_points = <<>>
    /\ coord_points = <<>>
    /\ time_all_points = <<>>
    /\ time = <<>>
    /\ outcome = NoOutcome
    /\ trace = <<>>

OrchestratorIdle ==
    /\ shp_with_points = [srs |-> "EPSG:4326", features |-> <<>>]
    /\ cerra_grib = Dataset(<<>>, SourceGrid)
    /\ meteo_index = "WDIR"
    /\ vsimem = NoFiles
    /\ LocalsCleared

SelectorIdle ==
    /\ grib_file = Dataset(<<>>, SourceGrid)
    /\ met_var = "WDIR"
    /\ matching_bands = <<>>

SamplerIdle ==
    /\ ds = NoDataset
    /\ gt = NoDataset.geotransform
    /\ x = 0
    /\ y = 0
    /\ ret = NotCalled

WindIdle ==
    /\ u_speed = <<>>
    /\ v_speed = <<>>
    /\ wind_dir = <<>>

(***************************************************************************)
(* get_point_values_of_CERRA_grib                                          *)
(***************************************************************************)
\* the notebook with its functions defined and nothing in /vsimem
Init ==
    /\ pc = "idle"
    /\ OrchestratorIdle /\ SelectorIdle /\ SamplerIdle /\ WindIdle

\* an invocation with some layer, grib file and variable identifier; what an
\* earlier invocation left in /vsimem is still there
Call ==
    /\ pc = "idle"
    /\ pc' = "start"
    /\ shp_with_points' \in Layers
    /\ cerra_grib' \in GribFiles(MaxGribBands)
    /\ meteo_index' \in MetVars
    /\ vsimem' = [p \in Paths |-> IF vsimem[p] = "absent" THEN "absent" ELSE "stale"]
    /\ UNCHANGED <<bands_with_wdir, output_dataset, nfeature, values_all_points,
                   coord_points, time_all_points, time, outcome, trace,
                   ret, selectorVars, samplerVars, windVars>>

\* the call has ended, by return or by exception: its frame is gone, /vsimem stays
Leave ==
    /\ pc \in {"returned", "failed"}
    /\ pc' = "idle"
    /\ shp_with_points' = [srs |-> "EPSG:4326", features |-> <<>>]
    /\ cerra_grib' = Dataset(<<>>, SourceGrid)
    /\ meteo_index' = "WDIR"
    /\ bands_with_wdir' = <<>>
    /\ output_dataset' = NoDataset
    /\ nfeature' = 0
    /\ values_all_points' = <<>>
    /\ coord_points' = <<>>
    /\ time_all_points' = <<>>
    /\ time' = <<>>
    /\ outcome' = NoOutcome
    /\ trace' = <<>>
    /\ x' = 0 /\ y' = 0 /\ ret' = NotCalled
    /\ UNCHANGED <<vsimem, selectorVars, ds, gt, windVars>>

\* layer, target_crs, and the band selector call
SelectBands ==
    /\ pc = "start"
    /\ bands_with_wdir' = get_bands_based_on_grib_element(cerra_grib, meteo_index)
    /\ trace' = Append(trace, "select")
    /\ pc' = "selected"
    /\ UNCHANGED <<shp_with_points, cerra_grib, meteo_index, output_dataset, nfeature,
                   values_all_points, coord_points, time_all_points, time, outcome,
                   vsimem, ret, selectorVars, samplerVars, windVars>>

\* warp_CERRA_to_targetCRS up to the opening of the warped file: Translate
\* writes the band subset, Warp writes the reprojected file
WarpToTarget ==
    /\ pc = "selected"
    /\ \E all \in BOOLEAN :
          LET temp_dataset ==
                  Dataset(TranslateBands(cerra_grib, bands_with_wdir, all), SourceGrid)
          IN  output_dataset' = WarpDataset(temp_dataset, shp_with_points.srs)
    /\ vsimem' = [vsimem EXCEPT ![TempPath] = "current", ![OutputPath] = "current"]
    /\ trace' = Append(trace, "warp")
    /\ pc' = "warped"
    /\ UNCHANGED <<shp_with_points, cerra_grib, meteo_index, bands_with_wdir, nfeature,
                   values_all_points, coord_points, time_all_points, time, outcome,
                   ret, selectorVars, samplerVars, windVars>>

\* the end of warp_CERRA_to_targetCRS: the band subset is unlinked, the
\* orchestrator takes the geotransform and starts with empty lists
UnlinkTemp ==
    /\ pc = "warped"
    /\ vsimem' = [vsimem EXCEPT ![TempPath] = "absent"]
    /\ values_all_points' = <<>>
    /\ coord_points' = <<>>
    /\ time_all_points' = <<>>
    /\ pc' = "loop"
    /\ UNCHANGED <<shp_with_points, cerra_grib, meteo_index, bands_with_wdir,
                   output_dataset, nfeature, time, outcome, trace,
                   ret, selectorVars, samplerVars, windVars>>

\* one turn of `for feature in layer` in which a None from the sampler is
\* recorded in the point's slot and the loop goes on
SamplePointTolerant ==
    /\ pc = "loop"
    /\ nfeature < Len(shp_with_points.features)
    /\ LET geom == shp_with_points.features[nfeature + 1]
           r == get_raster_value_at_point(output_dataset, output_dataset.geotransform,
                                          geom[1], geom[2])
       IN  /\ x' = geom[1]
           /\ y' = geom[2]
           /\ ret' = r
           /\ nfeature' = nfeature + 1
           /\ trace' = Append(trace, "sample")
           /\ IF r.kind = "AttributeError"
              THEN /\ pc' = "failed"
                   /\ outcome' = Exception(r.kind)
                   /\ UNCHANGED <<values_all_points, coord_points, time_all_points, time>>
              ELSE /\ values_all_points' = Append(values_all_points, r.values)
                   /\ coord_points' = Append(coord_points, <<geom[1], geom[2]>>)
                   /\ time_all_points' = Append(time_all_points, r.time)
                   /\ time' = <<r.time>>
                   /\ UNCHANGED <<pc, outcome>>
    /\ UNCHANGED <<shp_with_points, cerra_grib, meteo_index, bands_with_wdir,
                   output_dataset, vsimem, selectorVars, ds, gt, windVars>>

\* one turn of the loop that puts the point's values at the front of the list
SamplePointPrepend ==
    /\ pc = "loop"
    /\ nfeature < Len(shp_with_points.features)
    /\ LET geom == shp_with_points.features[nfeature + 1]
           r == get_raster_value_at_point(output_dataset, output_dataset.geotransform,
                                          geom[1], geom[2])
       IN  /\ x' = geom[1]
           /\ y' = geom[2]
           /\ ret' = r
           /\ nfeature' = nfeature + 1
           /\ trace' = Append(trace, "sample")
           /\ IF r.kind = "tuple"
              THEN /\ values_all_points' = <<r.values>> \o values_all_points
                   /\ coord_points' = Append(coord_points, <<geom[1], geom[2]>>)
                   /\ time_all_points' = Append(time_all_points, r.time)
                   /\ time' = <<r.time>>
                   /\ UNCHANGED <<pc, outcome>>
              ELSE /\ pc' = "failed"
                   /\ outcome' = Exception(IF r.kind = "None" THEN "TypeError" ELSE r.kind)
                   /\ UNCHANGED <<values_all_points, coord_points, time_all_points, time>>
    /\ UNCHANGED <<shp_with_points, cerra_grib, meteo_index, bands_with_wdir,
                   output_dataset, vsimem, selectorVars, ds, gt, windVars>>

\* one turn of the loop that extends `time` by the point's timestamps
SamplePointExtendTime ==
    /\ pc = "loop"
    /\ nfeature < Len(shp_with_points.features)
    /\ LET geom == shp_with_points.features[nfeature + 1]
           r == get_raster_value_at_point(output_dataset, output_dataset.geotransform,
                                          geom[1], geom[2])
       IN  /\ x' = geom[1]
           /\ y' = geom[2]
           /\ ret' = r
           /\ nfeature' = nfeature + 1
           /\ trace' = Append(trace, "sample")
           /\ IF r.kind = "tuple"
              THEN /\ values_all_points' = Append(values_all_points, r.values)
                   /\ coord_points' = Append(coord_points, <<geom[1], geom[2]>>)
                   /\ time_all_points' = Append(time_all_points, r.time)
                   /\ time' = <<(IF time = <<>> THEN <<>> ELSE time[1]) \o r.time>>
                   /\ UNCHANGED <<pc, outcome>>
              ELSE /\ pc' = "failed"
                   /\ outcome' = Exception(IF r.kind = "None" THEN "TypeError" ELSE r.kind)
                   /\ UNCHANGED <<values_all_points, coord_points, time_all_points, time>>
    /\ UNCHANGED <<shp_with_points, cerra_grib, meteo_index, bands_with_wdir,
                   output_dataset, vsimem, selectorVars, ds, gt, windVars>>

\* one turn of `for feature in layer`: the sampler call, the unpacking of its
\* result into values and time, and the three appends
SamplePoint ==
    /\ pc = "loop"
    /\ nfeature < Len(shp_with_points.features)
    /\ LET geom == shp_with_points.features[nfeature + 1]
           r == get_raster_value_at_point(output_dataset, output_dataset.geotransform,
                                          geom[1], geom[2])
       IN  /\ x' = geom[1]
           /\ y' = geom[2]
           /\ ret' = r
           /\ nfeature' = nfeature + 1
           /\ trace' = Append(trace, "sample")
           /\ IF r.kind = "tuple"
              THEN /\ values_all_points' = Append(values_all_points, r.values)
                   /\ coord_points' = Append(coord_points, <<geom[1], geom[2]>>)
                   /\ time_all_points' = Append(time_all_points, r.time)
                   /\ time' = <<r.time>>
                   /\ UNCHANGED <<pc, outcome>>
              ELSE \* `values, time = None` raises TypeError; an exception of
                   \* the sampler propagates
                   /\ pc' = "failed"
                   /\ outcome' = Exception(IF r.kind = "None" THEN "TypeError" ELSE r.kind)
                   /\ UNCHANGED <<values_all_points, coord_points, time_all_points, time>>
    /\ UNCHANGED <<shp_with_points, cerra_grib, meteo_index, bands_with_wdir,
                   output_dataset, vsimem, selectorVars, ds, gt, windVars>>

\* after the loop: the warped file is unlinked and the three values returned;
\* `time` is unbound when the loop body never ran
Finish ==
    /\ pc = "loop"
    /\ nfeature = Len(shp_with_points.features)
    /\ vsimem' = [vsimem EXCEPT ![OutputPath] = "absent"]
    /\ IF time = <<>>
       THEN /\ pc' = "failed"
            /\ outcome' = Exception("UnboundLocalError")
       ELSE /\ pc' = "returned"
            /\ outcome' = Return(values_all_points, coord_points, time[1])
    /\ UNCHANGED <<shp_with_points, cerra_grib, meteo_index, bands_with_wdir,
                   output_dataset, nfeature, values_all_points, coord_points,
                   time_all_points, time, trace, ret, selectorVars, samplerVars, windVars>>

Next == Call \/ Leave \/ SelectBands \/ WarpToTarget \/ UnlinkTemp \/ SamplePoint \/ Finish

Spec == Init /\ [][Next]_vars

(***************************************************************************)
(* The band selector, the point sampler and the wind direction on their own *)
(***************************************************************************)
InitSelector ==
    /\ pc = "input"
    /\ grib_file \in GribFiles(MaxBands)
    /\ met_var \in MetVars
    /\ matching_bands = <<>>
    /\ OrchestratorIdle /\ SamplerIdle /\ WindIdle

SelectorCall ==
    /\ pc = "input"
    /\ matching_bands' = get_bands_based_on_grib_element(grib_file, met_var)
    /\ pc' = "output"
    /\ UNCHANGED <<grib_file, met_var, orchestratorVars, samplerVars, ret, windVars>>

SpecSelector == InitSelector /\ [][SelectorCall]_vars

InitSampler ==
    /\ pc = "input"
    /\ ds \in SamplerDatasets
    /\ gt = ds.geotransform
    /\ x = 0 /\ y = 0
    /\ ret = NotCalled
    /\ OrchestratorIdle /\ SelectorIdle /\ WindIdle

SamplerCall ==
    /\ pc = "input"
    /\ \E px \in Coords, py \in {-c : c \in Coords} :
          /\ x' = px
          /\ y' = py
          /\ ret' = get_raster_value_at_point(ds, gt, px, py)
    /\ pc' = "output"
    /\ UNCHANGED <<ds, gt, orchestratorVars, selectorVars, windVars>>

SpecSampler == InitSampler /\ [][SamplerCall]_vars

InitWind ==
    /\ pc = "input"
    /\ \E n \in 1..MaxArr :
          /\ u_speed \in [1..n -> Units]
          /\ v_speed \in [1..n -> Units]
    /\ wind_dir = <<>>
    /\ OrchestratorIdle /\ SelectorIdle /\ SamplerIdle

WindCall ==
    /\ pc = "input"
    /\ wind_dir' = wind_dir_era5(u_speed, v_speed)
    /\ pc' = "output"
    /\ UNCHANGED <<u_speed, v_speed, orchestratorVars, selectorVars, samplerVars, ret>>

SpecWind == InitWind /\ [][WindCall]_vars

(***************************************************************************)
(* Properties                                                              *)
(***************************************************************************)
Range(s) == {s[i] : i \in DOMAIN s}

Features == shp_with_points.features

Ended == pc \in {"returned", "failed"}

\* C1: when the sampler gives None for a point, the orchestrator does not
\* fail: the point's slot holds the "no result" entry and the loop goes on.
\* (The code fails there: `values, time = None` cannot be unpacked.)
C1_NoResultIsRecorded ==
    ret.kind = "None" =>
        /\ pc # "failed"
        /\ Len(values_all_points) = nfeature
        /\ Len(coord_points) = nfeature
        /\ values_all_points[nfeature] = <<>>

\* C2: when the band selector returned the empty sequence, the reprojector
\* is never called. (The code calls it with the empty list.)
C2_NoWarpOfEmptySelection ==
    ("select" \in Range(trace) /\ bands_with_wdir = <<>>) => "warp" \notin Range(trace)

\* C3: whenever a call has ended, and so whenever the next one starts, both
\* /vsimem paths are released. (A call that ends by an exception inside the
\* loop leaves the warped file behind.)
C3_ArtefactsReleased ==
    pc \in {"returned", "failed", "idle", "start"} =>
        \A p \in Paths : vsimem[p] = "absent"

Sign(a) == IF a < 0 THEN -1 ELSE 1

\* the real pixel coordinate (c - origin) / size lies in [0, n)
InExtent(origin, size, n, c) ==
    LET d == (c - origin) * Sign(size)
    IN  0 <= d /\ d < n * Abs(size)

\* the pixel below the real pixel coordinate (c - origin) / size
FloorPixel(origin, size, c) == ((c - origin) * Sign(size)) \div Abs(size)

\* C4: a point outside the raster extent in x or in y maps to a column or
\* row outside the raster, the sampler returns None and reads no band; the
\* pixel of a point inside the extent is the nearest lower one. (The code
\* truncates toward zero: a point less than one pixel outside the origin
\* edge lands in column or row 0.)
C4_OutsideExtentIsOutOfBounds ==
    pc = "output" =>
        LET inside == /\ InExtent(gt[1], gt[2], ds.RasterXSize, x)
                      /\ InExtent(gt[4], gt[6], ds.RasterYSize, y)
        IN  /\ ~inside =>
                 /\ OutOfBounds(ds, PixelCol(gt, x), PixelRow(gt, y))
                 /\ ret.kind = "None"
                 /\ ret.reads = 0
            /\ inside =>
                 /\ PixelCol(gt, x) = FloorPixel(gt[1], gt[2], x)
                 /\ PixelRow(gt, y) = FloorPixel(gt[4], gt[6], y)

HasElement(band, var) ==
    "GRIB_ELEMENT" \in DOMAIN band.metadata /\ band.metadata.GRIB_ELEMENT = var

WdirWdirTemp(file) ==
    /\ RasterCount(file) = 3
    /\ HasElement(file.bands[1], "WDIR")
    /\ HasElement(file.bands[2], "WDIR")
    /\ HasElement(file.bands[3], "TEMP")

\* C5: the band selector returns exactly the 1-based indices of the bands
\* whose GRIB_ELEMENT equals the identifier, strictly ascending; untagged
\* bands are skipped; no match gives the empty sequence; tags WDIR, WDIR,
\* TEMP with query WDIR give <<1, 2>>.
C5_SelectorExact ==
    pc = "output" =>
        /\ \A k \in 1..(Len(matching_bands) - 1) : matching_bands[k] < matching_bands[k + 1]
        /\ Range(matching_bands) =
               {i \in 1..RasterCount(grib_file) : HasElement(grib_file.bands[i], met_var)}
        /\ (WdirWdirTemp(grib_file) /\ met_var = "WDIR") => matching_bands = <<1, 2>>

C5_Witness ==
    /\ pc = "output"
    /\ WdirWdirTemp(grib_file)
    /\ met_var = "WDIR"
    /\ matching_bands = <<1, 2>>

\* C6: a successful sample has one value and one timestamp per band of the
\* reprojected dataset, in band order; all points sampled against it have the
\* same timestamp sequence; a point with an unreadable pixel gives no tuple
\* at all, never a shorter one.
C6_OnePairPerBand ==
    /\ ret.kind = "tuple" =>
          /\ Len(ret.values) = RasterCount(output_dataset)
          /\ Len(ret.time) = RasterCount(output_dataset)
          /\ \A k \in 1..RasterCount(output_dataset) :
                ret.time[k] = output_dataset.bands[k].metadata.GRIB_IDS.REF_TIME
    /\ \A i, j \in DOMAIN time_all_points : time_all_points[i] = time_all_points[j]
    /\ (ret.kind # "not called"
          /\ \E k \in 1..RasterCount(output_dataset) :
                 output_dataset.bands[k].array = Unreadable)
       => (ret.kind # "tuple" /\ ret.values = <<>>)

C6_Witness ==
    /\ ret.kind = "tuple"
    /\ RasterCount(output_dataset) = 2
    /\ Len(time_all_points) = 2
    /\ Len(ret.values) = 2

SamplesOf(n) == [i \in 1..n |-> "sample"]

\* C7: on return the value sequences and the coordinates have one entry per
\* point, entry i belonging to point i; all samples come from the one dataset
\* of the one reprojector call, made after the selector call and before the
\* first sample.
C7_ParallelSequences ==
    pc = "returned" =>
        LET n == Len(Features)
            g == output_dataset.geotransform
        IN  /\ Len(outcome.values) = n
            /\ Len(outcome.coords) = n
            /\ \A i \in 1..n :
                  /\ outcome.coords[i] = Features[i]
                  /\ Len(outcome.values[i]) = RasterCount(output_dataset)
                  /\ \A k \in 1..RasterCount(output_dataset) :
                        outcome.values[i][k] =
                            ReadAsArray(output_dataset.bands[k],
                                        PixelCol(g, Features[i][1]),
                                        PixelRow(g, Features[i][2]))
            /\ trace = <<"select", "warp">> \o SamplesOf(n)

C7_Witness ==
    /\ pc = "returned"
    /\ Len(Features) = 2
    /\ Features[1] # Features[2]
    /\ RasterCount(output_dataset) = 2
    /\ outcome.values[1] # outcome.values[2]

\* C8 as stated: wind_dir_era5 gives 180 for u=0, v=1 and 90 for u=1, v=0,
\* and a value in [0, 360) on the cardinal and diagonal unit inputs.
C8_AsStated ==
    pc = "output" =>
        \A i \in DOMAIN wind_dir :
            /\ (u_speed[i] = 0 /\ v_speed[i] = 1) => wind_dir[i] = 180
            /\ (u_speed[i] = 1 /\ v_speed[i] = 0) => wind_dir[i] = 90
            /\ wind_dir[i] >= 0 /\ wind_dir[i] < 360

\* C8 amended: wind_dir_era5 gives 180 for u=0, v=1 and 270 for u=1, v=0,
\* and a value in [0, 360) on the cardinal and diagonal unit inputs.
C8_WindDirection ==
    pc = "output" =>
        /\ Len(wind_dir) = Len(u_speed)
        /\ \A i \in DOMAIN wind_dir :
              /\ (u_speed[i] = 0 /\ v_speed[i] = 1) => wind_dir[i] = 180
              /\ (u_speed[i] = 1 /\ v_speed[i] = 0) => wind_dir[i] = 270
              /\ wind_dir[i] >= 0 /\ wind_dir[i] < 360

C8_Witness ==
    /\ pc = "output"
    /\ \E i \in DOMAIN wind_dir : u_speed[i] = 1 /\ v_speed[i] = 0 /\ wind_dir[i] = 270
    /\ \E i \in DOMAIN wind_dir : u_speed[i] = 0 /\ v_speed[i] = 1 /\ wind_dir[i] = 180

\* C9: the timestamp sequence returned is the one the sampler produced for
\* the last point processed; the per-point sequences accumulated in the loop
\* are not returned.
C9_TimeOfLastPoint ==
    pc = "returned" =>
        /\ nfeature = Len(Features)
        /\ Len(time_all_points) = nfeature
        /\ outcome.time = ret.time
        /\ outcome.time = time_all_points[nfeature]
        /\ DOMAIN outcome = {"kind", "values", "coords", "time"}

C9_Witness ==
    /\ pc = "returned"
    /\ nfeature = 2
    /\ Len(outcome.time) = 2
    /\ outcome.time[1] # outcome.time[2]

\* C10: the call returns normally only if the point set is non-empty and the
\* sampler succeeded for every point; an empty point set ends in the unbound
\* `time`, a None from the sampler in the failed unpacking.
C10_ReturnsOnlyIfAllSampled ==
    /\ pc = "returned" =>
          /\ Features # <<>>
          /\ \A i \in 1..Len(Features) :
                get_raster_value_at_point(output_dataset, output_dataset.geotransform,
                                          Features[i][1], Features[i][2]).kind = "tuple"
    /\ (Ended /\ Features = <<>>) =>
          (pc = "failed" /\ outcome.kind = "UnboundLocalError")
    /\ ret.kind = "None" => (pc = "failed" /\ outcome.kind = "TypeError")

C10_Witness ==
    /\ pc = "failed"
    /\ outcome.kind = "TypeError"
    /\ nfeature = 2
    /\ Len(values_all_points) = 1

====
